---------------------------- MODULE Spec2Model ----------------------------
(***************************************************************************)
(* A model of analyze_schema.py: the entry point calls                     *)
(* analyze_database_schema('database.db'), which opens the file with       *)
(* sqlite3, lists the tables of sqlite_master, runs                        *)
(* PRAGMA foreign_key_list(<name>) for each table, and returns either a    *)
(* summary record or {'error': str(e)}; the entry point prints the record  *)
(* as JSON.                                                                *)
(*                                                                         *)
(* Every Python string of the program is modelled as a text: a sequence of *)
(* lexical pieces (words and punctuation), so that interpolating a table   *)
(* name into the PRAGMA statement and SQLite's parsing of that statement   *)
(* are computed, not assumed.  <<"orders">> is the name orders,            *)
(* <<"[", "orders", "]">> is the name [orders].                            *)
(***************************************************************************)
EXTENDS Naturals, Sequences, FiniteSets, TLC

VARIABLES
    fileKind,      \* what db_path refers to in the file system
    catalog,       \* sqlite_master rows of type 'table', in catalog order
    pc,            \* position of the process in the script
    runs,          \* how many times the script has been launched
    conn,          \* the sqlite3 connection of this run: none / open / closed
    calls,         \* sqlite3 calls made by this run, in order
    tables,        \* local `tables`: names fetched from sqlite_master
    i,             \* position of the for loop of line 20 in `tables`
    foreign_keys,  \* local `foreign_keys`
    exc,           \* the exception in flight, or NoExc
    result,        \* the value analyze_database_schema returned, or NoResult
    stdout,        \* JSON documents printed by this run
    exitStatus,    \* exit status of this run's process once pc = "exit"
    prevOutput     \* stdout of the previous run

vars == <<fileKind, catalog, pc, runs, conn, calls, tables, i, foreign_keys,
          exc, result, stdout, exitStatus, prevOutput>>

----------------------------------------------------------------------------
(* Bounds of the model. *)

MaxTables == 3      \* tables created in the database before the first run
MaxFkRows == 2      \* foreign-key rows declared in the whole database
MaxRuns == 2        \* launches of the script against the same file

----------------------------------------------------------------------------
(* The database the script is pointed at. *)

\* Python's None, as delivered for fk[4] when REFERENCES names no column.
\* Column and table names of the model are never the empty text.
NONE == <<>>

\* Table names a catalog can hold.  `order` is an SQL keyword; [orders] is a
\* name whose text is a bracket-quoted identifier.
TableNames ==
    { <<"customers">>, <<"orders">>, <<"[", "orders", "]">>, <<"order">> }

\* SQL keywords that cannot stand as an identifier.
Keywords == { "order" }

\* Rows PRAGMA foreign_key_list can return for a table: fk[3] (from),
\* fk[2] (table) and fk[4] (to).
FkRows ==
    { [from |-> <<"customer_id">>, table |-> <<"customers">>, to |-> <<"id">>],
      [from |-> <<"parent">>, table |-> <<"orders">>, to |-> NONE] }

RECURSIVE SeqsUpTo(_, _)
SeqsUpTo(S, n) ==
    IF n = 0 THEN { <<>> }
    ELSE LET shorter == SeqsUpTo(S, n - 1)
         IN  shorter \cup { Append(s, x) : s \in shorter, x \in S }

RECURSIVE DeclaredRows(_)
\* Number of foreign-key rows declared in catalog c.
DeclaredRows(c) ==
    IF c = <<>> THEN 0 ELSE Len(Head(c).fks) + DeclaredRows(Tail(c))

CatalogNames(c) == { c[k].name : k \in 1..Len(c) }

\* What db_path can refer to when the script is first launched: a path that
\* cannot be opened (a directory, or a file in a directory that does not
\* exist), a file that does not exist in an existing directory, a file that
\* is not a SQLite database, a SQLite database.  A fifth kind, "created", is
\* the zero-byte file sqlite3.connect leaves where there was none.
InitialFileKinds == { "unopenable", "missing", "garbage", "db" }

\* The tables a reader of the file finds: those of the catalog in a
\* database, none in a file that is missing or has zero bytes.
VisibleCatalog(kind, cat) == IF kind = "db" THEN cat ELSE <<>>


----------------------------------------------------------------------------
(* sqlite3, as far as the script uses it. *)

NoExc == [type |-> "none", msg |-> <<>>]

\* Each exception class of sqlite3 and its base class.
BaseClass ==
    [ OperationalError |-> "DatabaseError",
      DatabaseError    |-> "Error",
      Error            |-> "Exception",
      Exception        |-> "BaseException" ]

RECURSIVE IsSubclass(_, _)
IsSubclass(type, class) ==
    \/ type = class
    \/ /\ type \in DOMAIN BaseClass
       /\ IsSubclass(BaseClass[type], class)

\* sqlite3.connect(db_path) opens read-write-create: a file that does not
\* exist is created with zero bytes, which SQLite reads as an empty database.
FileAfterConnectTruncating(kind) ==
    IF kind \in { "missing", "db" } THEN "created" ELSE kind

FileAfterConnect(kind) ==
    IF kind = "missing" THEN "created" ELSE kind

\* Outcome of sqlite3.connect(db_path) on a file of the given kind.
ConnectOutcome(kind) ==
    IF kind = "unopenable"
    THEN [ok |-> FALSE,
          exc |-> [type |-> "OperationalError",
                   msg |-> <<"unable to open database file">>]]
    ELSE [ok |-> TRUE, exc |-> NoExc]

\* The statement of line 15.
SelectTables ==
    <<"SELECT name, sql FROM sqlite_master WHERE type='table'">>

\* Outcome of executing and fetching SelectTables: the names of the catalog
\* in catalog order (the sql column is fetched and never read), or the
\* failure of reading the header of a file that is no database.
SelectTablesOutcome(kind, cat) ==
    IF kind = "garbage"
    THEN [ok |-> FALSE, rows |-> <<>>,
          exc |-> [type |-> "DatabaseError",
                   msg |-> <<"file is not a database">>]]
    ELSE LET found == VisibleCatalog(kind, cat)
         IN  [ok |-> TRUE, rows |-> [k \in 1..Len(found) |-> found[k].name],
              exc |-> NoExc]

\* The f-string of line 22: the table name is pasted into the statement as
\* it is, unquoted.
PragmaStatement(table_name) ==
    <<"PRAGMA", "foreign_key_list", "(">> \o table_name \o <<")">>

\* The pieces between the parentheses of a PRAGMA statement.
PragmaArgument(stmt) == SubSeq(stmt, 4, Len(stmt) - 1)

\* SQLite's parse of the PRAGMA argument as one identifier: a bare word that
\* is no keyword, or a bracket-quoted word, whose brackets are stripped.
\* Anything else is a syntax error near the first piece that cannot be
\* taken.
ParseIdentifier(arg) ==
    IF Len(arg) = 1 /\ arg[1] \notin Keywords \cup { "[", "]" }
    THEN [ok |-> TRUE, name |-> arg, near |-> ""]
    ELSE IF Len(arg) = 3 /\ arg[1] = "[" /\ arg[3] = "]"
    THEN [ok |-> TRUE, name |-> <<arg[2]>>, near |-> ""]
    ELSE IF arg = <<>>
    THEN [ok |-> FALSE, name |-> <<>>, near |-> ")"]
    ELSE IF arg[1] \in Keywords \cup { "]" } \/ Len(arg) = 1
    THEN [ok |-> FALSE, name |-> <<>>, near |-> arg[1]]
    ELSE [ok |-> FALSE, name |-> <<>>, near |-> arg[2]]

\* The foreign keys the catalog declares for the table named `name`, as the
\* rows PRAGMA foreign_key_list returns them:
\* (id, seq, table, from, to); no rows when there is no such table.
DeclaredForeignKeys(cat, name) ==
    IF \E k \in 1..Len(cat) : cat[k].name = name
    THEN LET fks == cat[CHOOSE k \in 1..Len(cat) : cat[k].name = name].fks
         IN  [k \in 1..Len(fks) |->
                 <<k - 1, 0, fks[k].table, fks[k].from, fks[k].to>>]
    ELSE <<>>

\* Outcome of executing and fetching a PRAGMA foreign_key_list statement.
ForeignKeyList(cat, stmt) ==
    LET p == ParseIdentifier(PragmaArgument(stmt))
    IN  IF p.ok
        THEN [ok |-> TRUE, rows |-> DeclaredForeignKeys(cat, p.name),
              exc |-> NoExc]
        ELSE [ok |-> FALSE, rows |-> <<>>,
              exc |-> [type |-> "OperationalError",
                       msg |-> <<"near ", "\"", p.near, "\"",
                                 ": syntax error">>]]

----------------------------------------------------------------------------
(* The pure parts of the script. *)

\* The dict of lines 27-32.  Python's fk[2], fk[3], fk[4] are the third,
\* fourth and fifth column of the row.
Entry(table_name, fk) ==
    [ table       |-> table_name,
      from_column |-> fk[4],
      to_table    |-> fk[3],
      to_column   |-> fk[5] ]

CollectInFront(fks, table_name, fk_info) ==
    [k \in 1..Len(fk_info) |-> Entry(table_name, fk_info[k])] \o fks

\* Lines 25-32: one entry per row, appended in row order.
Collect(fks, table_name, fk_info) ==
    fks \o [k \in 1..Len(fk_info) |-> Entry(table_name, fk_info[k])]

SuccessRecordCountingTables(fks, tbls) ==
    [ foreign_keys   |-> fks,
      table_count    |-> Len(tbls),
      found_fk_count |-> Len(tbls) ]

\* The dict of lines 40-44, with table_count of line 35.
SuccessRecord(fks, tbls) ==
    [ foreign_keys   |-> fks,
      table_count    |-> Len(tbls),
      found_fk_count |-> Len(fks) ]

ErrorRecordWithPartialResult(e) ==
    [ error |-> e.msg, foreign_keys |-> foreign_keys ]

\* The dict of line 47; str(e) is the message of the exception.
ErrorRecord(e) == [ error |-> e.msg ]

\* Line 47 returns without conn.close().  The connection object is then
\* unreferenced; whether it is finalised (and so closed) as the function
\* returns or stays open until the process ends is up to the interpreter.
ConnAfterReturnWithoutClose(c) ==
    IF c = "open" THEN { "open", "closed" } ELSE { c }

CatchesOperationalErrorOnly(type) == IsSubclass(type, "OperationalError")

\* `except Exception` of line 46.
Catches(type) == IsSubclass(type, "Exception")

NoResult == [k \in {} |-> k]

SuccessKeys == { "foreign_keys", "table_count", "found_fk_count" }

ErrorKeys == { "error" }

\* json.dumps of a str: the text between quotes, quotes inside it escaped.
JsonString(t) ==
    <<"\"">> \o [k \in 1..Len(t) |-> IF t[k] = "\"" THEN "\\\"" ELSE t[k]]
             \o <<"\"">>

\* json.dumps of a str or None.
JsonValue(v) == IF v = NONE THEN <<"null">> ELSE JsonString(v)

JsonEntry(e) ==
    <<"{">> \o JsonString(<<"table">>) \o <<":">> \o JsonValue(e.table)
    \o <<",">> \o JsonString(<<"from_column">>) \o <<":">>
    \o JsonValue(e.from_column)
    \o <<",">> \o JsonString(<<"to_table">>) \o <<":">> \o JsonValue(e.to_table)
    \o <<",">> \o JsonString(<<"to_column">>) \o <<":">>
    \o JsonValue(e.to_column) \o <<"}">>

RECURSIVE JsonEntries(_)
JsonEntries(fks) ==
    IF fks = <<>> THEN <<>>
    ELSE IF Len(fks) = 1 THEN JsonEntry(fks[1])
    ELSE JsonEntry(fks[1]) \o <<",">> \o JsonEntries(Tail(fks))

\* json.dumps(result, indent=2) of line 55, as the tokens of the document
\* (the white space of the indentation is left out); keys come in the order
\* the dict was built.
JsonDumps(r) ==
    IF "error" \in DOMAIN r
    THEN <<"{">> \o JsonString(<<"error">>) \o <<":">> \o JsonValue(r.error)
         \o <<"}">>
    ELSE <<"{">> \o JsonString(<<"foreign_keys">>) \o <<":">> \o <<"[">>
         \o JsonEntries(r.foreign_keys) \o <<"]">>
         \o <<",">> \o JsonString(<<"table_count">>) \o <<":">>
         \o <<ToString(r.table_count)>>
         \o <<",">> \o JsonString(<<"found_fk_count">>) \o <<":">>
         \o <<ToString(r.found_fk_count)>> \o <<"}">>

ExitStatusOneOnError(r) == IF "error" \in DOMAIN r THEN 1 ELSE 0

\* The script ends after line 55 without sys.exit: status 0 whatever it
\* printed.
ExitStatusAfterPrint(r) == 0

----------------------------------------------------------------------------
(* The state machine. *)

Init ==
    /\ fileKind \in InitialFileKinds
    /\ catalog = <<>>
    /\ pc = "idle"
    /\ runs = 0
    /\ conn = "none"
    /\ calls = <<>>
    /\ tables = <<>>
    /\ i = 1
    /\ foreign_keys = <<>>
    /\ exc = NoExc
    /\ result = NoResult
    /\ stdout = <<>>
    /\ exitStatus = <<>>
    /\ prevOutput = <<>>

\* Before the script is first launched, whoever owns the database creates
\* its tables: a table of a new name with the foreign keys it declares, put
\* at the end of the catalog.
CreateTable ==
    /\ pc = "idle"
    /\ fileKind = "db"
    /\ Len(catalog) < MaxTables
    /\ \E name \in TableNames \ CatalogNames(catalog) :
         \E fks \in SeqsUpTo(FkRows, MaxFkRows - DeclaredRows(catalog)) :
            catalog' = Append(catalog, [name |-> name, fks |-> fks])
    /\ UNCHANGED <<fileKind, pc, runs, conn, calls, tables, i, foreign_keys,
                   exc, result, stdout, exitStatus, prevOutput>>

\* Lines 50-54: a new process runs the script and calls
\* analyze_database_schema; nothing but the file outlives a process.
Launch ==
    /\ pc \in { "idle", "exit" }
    /\ runs < MaxRuns
    /\ runs' = runs + 1
    /\ prevOutput' = stdout
    /\ pc' = "connect"
    /\ conn' = "none"
    /\ calls' = <<>>
    /\ tables' = <<>>
    /\ i' = 1
    /\ foreign_keys' = <<>>
    /\ exc' = NoExc
    /\ result' = NoResult
    /\ stdout' = <<>>
    /\ exitStatus' = <<>>
    /\ UNCHANGED <<fileKind, catalog>>

\* Lines 11-12.
Connect ==
    /\ pc = "connect"
    /\ calls' = Append(calls, <<"connect">>)
    /\ LET r == ConnectOutcome(fileKind)
       IN  IF r.ok
           THEN /\ conn' = "open"
                /\ fileKind' = FileAfterConnect(fileKind)
                /\ pc' = "select"
                /\ exc' = exc
           ELSE /\ exc' = r.exc
                /\ pc' = "except"
                /\ UNCHANGED <<conn, fileKind>>
    /\ UNCHANGED <<catalog, runs, tables, i, foreign_keys, result, stdout,
                   exitStatus, prevOutput>>

\* Lines 15-19.
ListTables ==
    /\ pc = "select"
    /\ calls' = Append(calls, SelectTables)
    /\ LET r == SelectTablesOutcome(fileKind, catalog)
       IN  IF r.ok
           THEN /\ tables' = r.rows
                /\ foreign_keys' = <<>>
                /\ i' = 1
                /\ pc' = "loop"
                /\ exc' = exc
           ELSE /\ exc' = r.exc
                /\ pc' = "except"
                /\ UNCHANGED <<tables, foreign_keys, i>>
    /\ UNCHANGED <<fileKind, catalog, runs, conn, result, stdout, exitStatus,
                   prevOutput>>

\* Lines 20-32, one iteration of the loop.
ForEachTable ==
    /\ pc = "loop"
    /\ i <= Len(tables)
    /\ LET table_name == tables[i]
           stmt == PragmaStatement(table_name)
           r == ForeignKeyList(VisibleCatalog(fileKind, catalog), stmt)
       IN  /\ calls' = Append(calls, stmt)
           /\ IF r.ok
              THEN /\ foreign_keys' = Collect(foreign_keys, table_name, r.rows)
                   /\ i' = i + 1
                   /\ UNCHANGED <<pc, exc>>
              ELSE /\ exc' = r.exc
                   /\ pc' = "except"
                   /\ UNCHANGED <<foreign_keys, i>>
    /\ UNCHANGED <<fileKind, catalog, runs, conn, tables, result, stdout,
                   exitStatus, prevOutput>>

\* Lines 35-44, once the loop is over.
ReturnSuccess ==
    /\ pc = "loop"
    /\ i > Len(tables)
    /\ calls' = Append(calls, <<"close">>)
    /\ conn' = "closed"
    /\ result' = SuccessRecord(foreign_keys, tables)
    /\ pc' = "print"
    /\ UNCHANGED <<fileKind, catalog, runs, tables, i, foreign_keys, exc,
                   stdout, exitStatus, prevOutput>>

\* Lines 46-47.  An exception the clause does not catch would leave the
\* function and end the process with a traceback and status 1.
Except ==
    /\ pc = "except"
    /\ IF Catches(exc.type)
       THEN /\ result' = ErrorRecord(exc)
            /\ exc' = NoExc
            /\ conn' \in ConnAfterReturnWithoutClose(conn)
            /\ pc' = "print"
            /\ UNCHANGED exitStatus
       ELSE /\ pc' = "exit"
            /\ exitStatus' = <<1>>
            /\ UNCHANGED <<result, exc, conn>>
    /\ UNCHANGED <<fileKind, catalog, runs, calls, tables, i,
                   foreign_keys, stdout, prevOutput>>

\* Line 55 and the end of the script.
PrintResult ==
    /\ pc = "print"
    /\ stdout' = Append(stdout, JsonDumps(result))
    /\ exitStatus' = <<ExitStatusAfterPrint(result)>>
    /\ pc' = "exit"
    /\ UNCHANGED <<fileKind, catalog, runs, conn, calls, tables, i,
                   foreign_keys, exc, result, prevOutput>>

\* The steps of a running process.
Step ==
    \/ Connect
    \/ ListTables
    \/ ForEachTable
    \/ ReturnSuccess
    \/ Except
    \/ PrintResult

Next ==
    \/ CreateTable
    \/ Launch
    \/ Step

Spec == Init /\ [][Next]_vars

\* The interpreter runs a started process to its end: it is single-threaded
\* and waits for nothing but the calls it makes.
FairSpec == Spec /\ WF_vars(Step)

----------------------------------------------------------------------------
(* What the claims speak of. *)

\* analyze_database_schema has returned or the process has ended.
Finished == pc \in { "print", "exit" }

Succeeded == Finished /\ DOMAIN result = SuccessKeys

Failed == Finished /\ DOMAIN result = ErrorKeys

\* The tables of the database the run reads, in catalog order.
Tables == VisibleCatalog(fileKind, catalog)

\* The rows the foreign-key query of table `name` returns in this database.
RowsReturned(name) == ForeignKeyList(Tables, PragmaStatement(name)).rows

RECURSIVE SumOfRows(_)
SumOfRows(c) ==
    IF c = <<>> THEN 0
    ELSE Len(RowsReturned(Head(c).name)) + SumOfRows(Tail(c))

\* Position of the table called `name` in catalog order.
Position(name) == CHOOSE k \in 1..Len(Tables) : Tables[k].name = name

\* The entries of fks reported for table `name`, in the order of fks.
EntriesOf(fks, name) ==
    LET OfTable(e) == e.table = name
    IN  SelectSeq(fks, OfTable)

\* Whether this sqlite3 call fails on the file as it is.
CallFails(call) ==
    \/ call = <<"connect">> /\ ~ConnectOutcome(fileKind).ok
    \/ call = SelectTables /\ ~SelectTablesOutcome(fileKind, catalog).ok
    \/ call[1] = "PRAGMA" /\ ~ForeignKeyList(Tables, call).ok

\* What a reader of db_path finds there.
Contents(kind, cat) ==
    [ opens    |-> ConnectOutcome(kind).ok,
      database |-> SelectTablesOutcome(kind, cat).ok,
      tables   |-> VisibleCatalog(kind, cat) ]

OrdersCustomerId ==
    [from |-> <<"customer_id">>, table |-> <<"customers">>, to |-> <<"id">>]

\* The only foreign key the database declares is orders.customer_id
\* referencing customers(id).
OnlyOrdersReferencesCustomers ==
    /\ fileKind = "db"
    /\ \E k \in 1..Len(catalog) :
          /\ catalog[k].name = <<"orders">>
          /\ catalog[k].fks = <<OrdersCustomerId>>
          /\ \A j \in 1..Len(catalog) : j # k => catalog[j].fks = <<>>

----------------------------------------------------------------------------
(* The claims. *)

\* C1: whenever analyze_database_schema has returned, its result has exactly
\* the keys foreign_keys, table_count, found_fk_count or exactly the key
\* error; never a mix of the two, never neither.
C1_ExactlyOneShape ==
    Finished => (DOMAIN result = SuccessKeys \/ DOMAIN result = ErrorKeys)

\* An error record returned after foreign keys had been collected.
C1_Witness == pc = "print" /\ Failed /\ foreign_keys # <<>>

\* C2: on every exit path, a connection that was opened is closed by the
\* time the result is returned.
C2_ClosedOnEveryExit == (Finished /\ conn # "none") => conn = "closed"

\* C3: a first run on a path that names no file (the zero-byte file is then
\* the one this run's connect created), a path that cannot be opened, or a
\* file that is no database returns an error record with a non-empty
\* message and no success key.
C3_BadPathGivesError ==
    (Finished /\ runs = 1 /\ fileKind \in { "created", "unopenable", "garbage" })
        => /\ DOMAIN result = ErrorKeys
           /\ result.error # <<>>

\* C4: on a database of N tables that declares no foreign key, the result is
\* the success record with table_count N, no foreign keys and
\* found_fk_count 0.
C4_NoForeignKeys ==
    (Finished /\ fileKind = "db" /\ DeclaredRows(catalog) = 0)
        => result = [ foreign_keys   |-> <<>>,
                      table_count    |-> Len(catalog),
                      found_fk_count |-> 0 ]

\* C5: in a success record found_fk_count is the length of foreign_keys,
\* and that length is the number of rows the foreign-key queries of all the
\* tables return.
C5_CountMatchesRows ==
    Succeeded => /\ result.found_fk_count = Len(result.foreign_keys)
                 /\ Len(result.foreign_keys) = SumOfRows(Tables)

\* A success record with more foreign keys than tables.
C5_Witness ==
    /\ Succeeded
    /\ result.found_fk_count >= 2
    /\ result.found_fk_count > result.table_count

\* C6: in a success record the entries of an earlier table of the catalog
\* come before those of a later one, and the entries of one table are the
\* rows of its foreign-key query in the order of the rows.
C6_OrderPreserved ==
    Succeeded =>
        LET fks == result.foreign_keys
        IN  /\ \A p, q \in 1..Len(fks) :
                  p < q => Position(fks[p].table) <= Position(fks[q].table)
            /\ \A k \in 1..Len(Tables) :
                  LET name == Tables[k].name
                      rows == RowsReturned(name)
                  IN  EntriesOf(fks, name)
                          = [j \in 1..Len(rows) |-> Entry(name, rows[j])]

\* A success record with entries of two tables, one of them with two
\* different entries.
C6_Witness ==
    /\ Succeeded
    /\ \E p, q \in 1..Len(result.foreign_keys) :
          /\ p < q
          /\ result.foreign_keys[p].table = result.foreign_keys[q].table
          /\ result.foreign_keys[p] # result.foreign_keys[q]
    /\ \E p, q \in 1..Len(result.foreign_keys) :
          result.foreign_keys[p].table # result.foreign_keys[q].table

\* C7, for the runs that return a success record: every foreign key a table
\* T declares is reported as {table: T, from_column, to_table, to_column},
\* and a database whose only declared foreign key is orders.customer_id
\* referencing customers(id) is reported with exactly that one entry.
C7_DeclaredForeignKeys ==
    (Succeeded /\ fileKind = "db") =>
        /\ \A k \in 1..Len(catalog) : \A j \in 1..Len(catalog[k].fks) :
              \E p \in 1..Len(result.foreign_keys) :
                 result.foreign_keys[p]
                    = [ table       |-> catalog[k].name,
                        from_column |-> catalog[k].fks[j].from,
                        to_table    |-> catalog[k].fks[j].table,
                        to_column   |-> catalog[k].fks[j].to ]
        /\ OnlyOrdersReferencesCustomers =>
              result.foreign_keys
                 = << [ table       |-> <<"orders">>,
                        from_column |-> <<"customer_id">>,
                        to_table    |-> <<"customers">>,
                        to_column   |-> <<"id">> ] >>

\* C8: a sqlite3 call that fails is the last call of its run (no later
\* query, no retry of any call), the exception is caught, and what the
\* function returns is the error record alone, whatever had been collected.
C8_ShortCircuit ==
    /\ \A k \in 1..Len(calls) :
          CallFails(calls[k]) =>
             /\ k = Len(calls)
             /\ pc \in { "except", "print", "exit" }
             /\ pc # "except" => DOMAIN result = ErrorKeys
    /\ \A j, k \in 1..Len(calls) : j < k => calls[j] # calls[k]

\* A foreign-key query failed after foreign keys of earlier tables had been
\* collected and before later tables were queried.
C8_Witness ==
    /\ pc = "exit"
    /\ Failed
    /\ foreign_keys # <<>>
    /\ i < Len(tables)

\* C9: a run prints what the run before it on the same file printed, and no
\* step of a run changes what a reader finds in the file.
C9_Deterministic ==
    /\ [](pc = "exit" /\ runs >= 2 => stdout = prevOutput)
    /\ [][pc # "idle" =>
            Contents(fileKind', catalog') = Contents(fileKind, catalog)]_vars

\* A second run has printed a success record with foreign keys.
C9_Witness ==
    /\ pc = "exit"
    /\ runs >= 2
    /\ Succeeded
    /\ result.foreign_keys # <<>>
    /\ stdout # <<>>

\* C10: every run that has started reaches the end of the script, and at
\* the end it has printed exactly one document and its exit status is 0,
\* whether the analysis succeeded or failed; nothing is printed earlier.
C10_AlwaysExitsZero ==
    /\ (pc = "connect") ~> (pc = "exit")
    /\ [](pc = "exit" => (exitStatus = <<0>> /\ Len(stdout) = 1))
    /\ [](pc # "exit" => stdout = <<>>)

\* A run whose analysis failed has ended with status 0.
C10_Witness == pc = "exit" /\ Failed /\ exitStatus = <<0>>

============================================================================
